---- MODULE Spec2Model ----
(***************************************************************************)
(* Envisage: screenshot ingestion pipeline.                                *)
(*   watcher.py           filesystem feed, stability gate, note writer     *)
(*   ocr_utils.py         create_note_from_image / extract_text            *)
(*   clipboard_monitor.py clipboard polling feed                           *)
(*   generate_index.py    frontmatter parser, site and index generation    *)
(*   git_ops.py           git_add_commit_push                              *)
(* Text (file contents, file names, field values) is a sequence of tokens: *)
(* a token is one of the characters that the code treats specially         *)
(* ("\n", " ", ":", "-", "_") or an atomic run of other characters.        *)
(***************************************************************************)
EXTENDS Integers, Sequences, FiniteSets, TLC

VARIABLES
    \* ---- watcher.py ----
    files,      \* the watched directory: path -> [exists, size, kind]
    queue,      \* the observer's event queue (creation events not yet dispatched)
    busy,       \* NewImageHandler._busy
    pc,         \* position of the observer thread inside on_created
    cur,        \* the event being handled (path of on_created)
    last_size,  \* wait_for_file_complete: last_size
    complete,   \* what wait_for_file_complete returned (line 85), FALSE outside that line
    start,      \* wait_for_file_complete: start
    text,       \* ocr_image_to_markdown: text
    alive,      \* the observer thread is running
    now,        \* the clock, in ticks
    notes,      \* data/notes: file name -> file text
    ocrFailed,  \* ocr_image_to_markdown: the except clause of the OCR call ran
    nEvents,    \* number of creation events delivered so far
    faulty,     \* history: something other than one event per complete, valid, kept image happened
    \* ---- ocr_utils.py ----
    call,       \* the last call of create_note_from_image: its arguments and how it ended
    \* ---- git_ops.py ----
    repo,       \* the repository and its remote
    res,        \* the last call of git_add_commit_push: what it did and what it returned
    retry_on_rejected, \* the last call of git_add_commit_push: its argument retry_on_rejected
    \* ---- clipboard_monitor.py ----
    clip,        \* what the system clipboard holds
    seen_hashes, \* grab_poll_loop: seen_hashes
    captures,    \* data/clipboard: the content of each capture saved, in order
    polls,       \* number of iterations of the poll loop so far
    looping,     \* grab_poll_loop is still running
    polled,      \* history: the clipboard value and the number of captures saved at the last two polls
    \* ---- frontmatter: create_note_from_image's text read back by parse_frontmatter ----
    fmIn,        \* the field values handed to create_note_from_image
    fmText,      \* the note text written
    fmMeta,      \* the meta dict parse_frontmatter returns for it
    fmStage,     \* "input", "written", "parsed"
    \* ---- generate_index.py: generate_site ----
    pages,       \* site/notes: note file name -> the page rendered for it
    index,       \* site/index.html: whether it exists, and its rows
    genStatus,   \* how the last call of generate_site ended
    genRuns,     \* history: number of runs of generate_site over the notes as they are now
    writing      \* the write_text call in progress on a note file: the file and the text it is writing

wvars == <<files, queue, busy, pc, cur, last_size, complete, start, text, ocrFailed, alive, now, notes, nEvents, faulty>>

gvars == <<repo, res, retry_on_rejected>>

cvars == <<clip, seen_hashes, captures, polls, looping, polled>>

fvars == <<fmIn, fmText, fmMeta, fmStage>>

svars == <<pages, index, genStatus, genRuns, writing>>

vars == <<wvars, call, gvars, cvars, fvars, svars>>

\* ---------------------------------------------------------------- bounds
MaxEvents == 2
MaxSize == 1
PollTicks == 1
GuardTicks == 1
TimeoutTicks == 2

\* ---------------------------------------------------------------- text helpers
NL == "\n"
SP == " "

IsSpace(c) == c \in {" ", "\n"}

RECURSIVE Join(_, _)
\* sep.join(lines)
Join(lines, sep) ==
    IF lines = << >> THEN << >>
    ELSE IF Len(lines) = 1 THEN lines[1]
    ELSE lines[1] \o <<sep>> \o Join(Tail(lines), sep)

RECURSIVE IndexFrom(_, _, _)
\* the first position from i on where s holds the token c, Len(s) + 1 if none
IndexFrom(s, c, i) == IF i > Len(s) \/ s[i] = c THEN i ELSE IndexFrom(s, c, i + 1)

RECURSIVE SplitOn(_, _)
\* the pieces of s between occurrences of the token sep (str.split(sep))
SplitOn(s, sep) ==
    LET i == IndexFrom(s, sep, 1)
    IN  IF i > Len(s) THEN <<s>>
        ELSE <<SubSeq(s, 1, i - 1)>> \o SplitOn(SubSeq(s, i + 1, Len(s)), sep)

\* str.splitlines(): no empty last line after a trailing newline, [] for ""
SplitLines(s) ==
    IF s = << >> THEN << >>
    ELSE LET parts == SplitOn(s, NL)
         IN  IF parts[Len(parts)] = << >> THEN SubSeq(parts, 1, Len(parts)-1) ELSE parts

RECURSIVE LStrip(_)
\* str.lstrip()
LStrip(s) == IF s # << >> /\ IsSpace(Head(s)) THEN LStrip(Tail(s)) ELSE s

RECURSIVE RStrip(_)
\* str.rstrip()
RStrip(s) == IF s # << >> /\ IsSpace(s[Len(s)]) THEN RStrip(SubSeq(s, 1, Len(s)-1)) ELSE s

\* str.strip()
Strip(s) == RStrip(LStrip(s))

\* str.replace(" ", "_")
ReplaceSpaces(s) == [i \in 1..Len(s) |-> IF s[i] = " " THEN "_" ELSE s[i]]

\* ---------------------------------------------------------------- watcher.py
PngAB == [stem |-> <<"a", " ", "b">>, ext |-> ".png"]
PngA_B == [stem |-> <<"a", "_", "b">>, ext |-> ".png"]
TxtN == [stem |-> <<"n">>, ext |-> ".txt"]
Paths == {PngAB, PngA_B, TxtN}

ALLOWED_EXT == {".png", ".jpg", ".jpeg", ".bmp", ".tiff", ".tif", ".webp"}

\* PatternMatchingEventHandler(patterns=[...]): which events reach on_created
MatchesPatterns(p) == p.ext \in {".png", ".jpg", ".jpeg", ".bmp", ".tif", ".tiff", ".webp"}

\* strftime("%Y%m%dT%H%M%S_%fZ") at microsecond resolution: one stamp per tick
utc_now_iso_coarse(t) == t \div 4
utc_now_iso(t) == t

\* Path.name
PathName(p) == p.stem \o <<p.ext>>

\* f"{ts}__{safe_name}.md"
NoteFileName(ts, p) == [ts |-> ts, name |-> ReplaceSpaces(p.stem)]

OcrOutcomes ==
    { [ok |-> TRUE, text |-> << >>],
      [ok |-> TRUE, text |-> <<"Hello">>],
      [ok |-> FALSE, text |-> <<"boom">>] }

\* text after the try/except around pytesseract.image_to_string
OcrTextDropped(r) == r.text
OcrText(r) == IF r.ok THEN r.text ELSE <<"[OCR ERROR]", " ">> \o r.text

\* text.splitlines() if text else ["(no text)"]
BodyLines(t) == IF t # << >> THEN SplitLines(t) ELSE << <<"(no text)">> >>

\* the text written by ocr_image_to_markdown
WatcherNoteText(p, ts, t) ==
    Join(<< <<"-", "-", "-">>,
            <<"source", ":", " ", "screenshot">>,
            <<"orig_filename", ":", " ">> \o PathName(p),
            <<"timestamp_utc", ":", " ", ToString(ts)>>,
            <<"ocr_engine", ":", " ", "tesseract">>,
            <<"-", "-", "-">>,
            << >> >> \o BodyLines(t), NL)

NoFile == [exists |-> FALSE, size |-> 0, kind |-> "image"]
NoEvent == [path |-> TxtN, inflight |-> FALSE]

InitWatcher ==
    /\ files = [p \in Paths |-> NoFile]
    /\ queue = << >>
    /\ busy = {}
    /\ pc = "idle"
    /\ cur = NoEvent
    /\ last_size = -1
    /\ complete = FALSE
    /\ start = 0
    /\ text = << >>
    /\ ocrFailed = FALSE
    /\ alive = TRUE
    /\ now = 0
    /\ notes = << >>
    /\ nEvents = 0
    /\ faulty = FALSE

\* A file is created in the watched directory; the emitter queues its creation event.
\* (A file that is no image file by its name holds no image.)
FsCreate(p, kind, size) ==
    /\ nEvents < MaxEvents
    /\ ~files[p].exists
    /\ MatchesPatterns(p) \/ (kind = "garbage" /\ size = MaxSize)
    /\ files' = [files EXCEPT ![p] = [exists |-> TRUE, size |-> size, kind |-> kind]]
    /\ queue' = Append(queue, [path |-> p, inflight |-> p \in busy])
    /\ nEvents' = nEvents + 1
    /\ faulty' = (faulty \/ (MatchesPatterns(p) /\ (kind # "image" \/ size # MaxSize)))
    /\ UNCHANGED <<busy, pc, cur, last_size, complete, start, text, ocrFailed, alive, now, notes>>

\* The writer of a file appends to it.
FsGrow(p) ==
    /\ files[p].exists
    /\ files[p].size < MaxSize
    /\ files' = [files EXCEPT ![p].size = @ + 1]
    /\ UNCHANGED <<queue, busy, pc, cur, last_size, complete, start, text, ocrFailed, alive, now, notes, nEvents, faulty>>

\* A file is removed from the watched directory.
FsDelete(p) ==
    /\ files[p].exists
    /\ files' = [files EXCEPT ![p] = NoFile]
    /\ faulty' = TRUE
    /\ UNCHANGED <<queue, busy, pc, cur, last_size, complete, start, text, ocrFailed, alive, now, notes, nEvents>>

\* The operating system reports the creation of an existing file a second time.
FsDuplicateEvent(p) ==
    /\ nEvents < MaxEvents
    /\ files[p].exists
    /\ queue' = Append(queue, [path |-> p, inflight |-> p \in busy])
    /\ nEvents' = nEvents + 1
    /\ faulty' = TRUE
    /\ UNCHANGED <<files, busy, pc, cur, last_size, complete, start, text, ocrFailed, alive, now, notes>>

\* The observer thread takes the next event; an event that matches the handler's
\* patterns is passed to on_created (lines 128-134 and 79-83).
OnCreated ==
    /\ alive
    /\ pc = "idle"
    /\ queue # << >>
    /\ queue' = Tail(queue)
    /\ LET ev == Head(queue) IN
       IF ~MatchesPatterns(ev.path) \/ ev.path \in busy
       THEN UNCHANGED <<busy, pc, cur, last_size, complete, start>>
       ELSE /\ busy' = busy \cup {ev.path}
            /\ cur' = ev
            /\ pc' = IF ev.path.ext \in ALLOWED_EXT THEN "gate" ELSE "returned_none"
            /\ start' = now
            /\ last_size' = -1
            /\ complete' = FALSE
    /\ UNCHANGED <<files, text, ocrFailed, alive, now, notes, nEvents, faulty>>

\* path.stat().st_size, -1 on FileNotFoundError
StatSize(p) == IF files[p].exists THEN files[p].size ELSE -1

\* line 70: the size read equals the size read one poll earlier and is not zero
SizeStableAnySize(size, last) == size = last
SizeStable(size, last) == size = last /\ size > 0

\* One iteration of the loop of wait_for_file_complete; ocr_image_to_markdown
\* goes on to Image.open whatever the result (lines 85-86).
GatePoll ==
    /\ pc = "gate"
    /\ LET size == StatSize(cur.path) IN
       IF SizeStable(size, last_size)
       THEN /\ pc' = "open"
            /\ complete' = TRUE
            /\ UNCHANGED <<last_size, now, faulty>>
       ELSE IF now - start > TimeoutTicks
       THEN /\ pc' = "open"
            /\ complete' = FALSE
            /\ faulty' = TRUE
            /\ UNCHANGED <<last_size, now>>
       ELSE /\ last_size' = size
            /\ now' = now + PollTicks
            /\ UNCHANGED <<pc, complete, faulty>>
    /\ UNCHANGED <<files, queue, busy, cur, start, text, ocrFailed, alive, notes, nEvents>>

\* Image.open(img_path): "ok", "unidentified" (UnidentifiedImageError) or
\* "oserror" (FileNotFoundError, which the except clause does not name)
ImageOpenLenient(p) == IF ~files[p].exists THEN "oserror" ELSE "ok"
ImageOpen(p) ==
    IF ~files[p].exists THEN "oserror"
    ELSE IF files[p].kind # "image" \/ files[p].size = 0 THEN "unidentified"
    ELSE "ok"

\* ocr_image_to_markdown lines 88-92
OpenImage ==
    /\ pc = "open"
    /\ LET r == ImageOpen(cur.path) IN
       pc' = CASE r = "ok" -> "ocr"
               [] r = "unidentified" -> "returned_none"
               [] OTHER -> "raised"
    /\ complete' = FALSE
    /\ UNCHANGED <<files, queue, busy, cur, last_size, start, text, ocrFailed, alive, now, notes, nEvents, faulty>>

\* ocr_image_to_markdown lines 94-98
RunOcr ==
    /\ pc = "ocr"
    /\ \E r \in OcrOutcomes :
        /\ text' = OcrText(r)
        /\ ocrFailed' = ~r.ok
    /\ pc' = "write"
    /\ UNCHANGED <<files, queue, busy, cur, last_size, complete, start, alive, now, notes, nEvents, faulty>>

\* the file that ocr_image_to_markdown writes for the event in hand
OutPath == NoteFileName(utc_now_iso(now), cur.path)

\* ocr_image_to_markdown lines 100-119; write_text may fail with OSError
\* (the write is one step here, where no reader runs beside it; AddNote,
\* WriteChunk and FinishWrite are the steps of write_text)
WriteNote ==
    /\ pc = "write"
    /\ \E diskOk \in BOOLEAN :
        IF diskOk
        THEN /\ notes' = [f \in (DOMAIN notes) \cup {OutPath} |->
                            IF f = OutPath THEN WatcherNoteText(cur.path, utc_now_iso(now), text)
                            ELSE notes[f]]
             /\ pc' = "returned_note"
             /\ UNCHANGED faulty
        ELSE /\ pc' = "raised"
             /\ faulty' = TRUE
             /\ UNCHANGED notes
    /\ UNCHANGED <<files, queue, busy, cur, last_size, complete, start, text, ocrFailed, alive, now, nEvents>>

\* line 140: self._busy.discard(path) takes the path out of the set
DiscardKeeps(set, path) == set
Discard(set, path) == set \ {path}

\* on_created lines 137-140, reached by a return of ocr_image_to_markdown
FinallyReturn ==
    /\ pc \in {"returned_note", "returned_none"}
    /\ now' = now + GuardTicks
    /\ busy' = Discard(busy, cur.path)
    /\ pc' = "idle"
    /\ text' = << >>
    /\ ocrFailed' = FALSE
    /\ UNCHANGED <<files, queue, cur, last_size, complete, start, alive, notes, nEvents, faulty>>

\* on_created lines 137-140, reached by an exception: the finally block runs and
\* the exception leaves on_created; the observer thread's loop does not catch it.
FinallyRaise ==
    /\ pc = "raised"
    /\ now' = now + GuardTicks
    /\ busy' = Discard(busy, cur.path)
    /\ pc' = "dead"
    /\ alive' = FALSE
    /\ UNCHANGED <<files, queue, cur, last_size, complete, start, text, ocrFailed, notes, nEvents, faulty>>

\* ---------------------------------------------------------------- ocr_utils.py
\* datetime.now(timezone.utc).isoformat(timespec="milliseconds")
_utc_now_iso(t) == <<"2024", "-", "01", "T", "00", ":", ToString(t), "+", "00", ":", "00">>

\* strftime("%Y%m%dT%H%M%S_%fZ")
_safe_ts_for_filename(t) == t

None == <<"None">>

\* (topics or "general").strip()
TopicsField(topics) == Strip(IF topics = None \/ topics = << >> THEN <<"general">> ELSE topics)

\* meta_lines of create_note_from_image
MetaLines(created_utc, source, orig_filename, topics, version) ==
    << <<"-", "-", "-">>,
       <<"created_utc", ":", " ">> \o created_utc,
       <<"source", ":", " ">> \o source,
       <<"orig_filename", ":", " ">> \o orig_filename,
       <<"topics", ":", " ">> \o TopicsField(topics),
       <<"version", ":", " ">> \o version,
       <<"ocr_engine", ":", " ", "tesseract">>,
       <<"-", "-", "-">>,
       << >> >>

\* "\n".join(meta_lines + body_lines)
CreateNoteText(created_utc, source, orig_filename, topics, version, t) ==
    Join(MetaLines(created_utc, source, orig_filename, topics, version) \o BodyLines(t), NL)

\* extract_text: the text returned, or the exception raised
ExtractText(p, r) ==
    IF ~files[p].exists THEN [raised |-> TRUE, text |-> << >>]
    ELSE IF ImageOpen(p) # "ok" THEN [raised |-> TRUE, text |-> << >>]
    ELSE [raised |-> FALSE, text |-> OcrText(r)]

NoCall == [status |-> "none", path |-> TxtN, ocrFailed |-> FALSE, diskFailed |-> FALSE, out |-> NoteFileName(0, TxtN)]

InitOcrUtils == call = NoCall

\* One call create_note_from_image(p) with the other arguments at their
\* defaults; r is what the OCR engine does, diskOk whether write_text succeeds.
CreateNoteFromImage(p, r, diskOk) ==
    /\ nEvents < MaxEvents
    /\ nEvents' = nEvents + 1
    /\ faulty' = TRUE
    /\ LET x == ExtractText(p, r)
           out == NoteFileName(_safe_ts_for_filename(now), p)
           content == CreateNoteText(_utc_now_iso(now), <<"screenshot">>, PathName(p), None, <<"1.0">>, x.text)
       IN  IF x.raised \/ ~diskOk
           THEN /\ call' = [status |-> "raised", path |-> p, ocrFailed |-> ~x.raised /\ ~r.ok,
                             diskFailed |-> ~x.raised /\ ~diskOk, out |-> out]
                /\ UNCHANGED notes
           ELSE /\ call' = [status |-> "written", path |-> p, ocrFailed |-> ~r.ok,
                             diskFailed |-> FALSE, out |-> out]
                /\ notes' = [f \in (DOMAIN notes) \cup {out} |-> IF f = out THEN content ELSE notes[f]]
    /\ UNCHANGED <<files, queue, busy, pc, cur, last_size, complete, start, text, ocrFailed, alive, now, gvars, cvars, fvars, svars>>

NextWatcher ==
    \/ \E p \in Paths, kind \in {"image", "garbage"}, size \in 0..MaxSize : FsCreate(p, kind, size)
    \/ \E p \in Paths : FsGrow(p)
    \/ \E p \in Paths : FsDelete(p)
    \/ \E p \in Paths : FsDuplicateEvent(p)
    \/ OnCreated
    \/ GatePoll
    \/ OpenImage
    \/ RunOcr
    \/ WriteNote
    \/ FinallyReturn
    \/ FinallyRaise

\* ---------------------------------------------------------------- git_ops.py
MaxAhead == 2

\* GitOpsResult plus a log of the git commands the call ran
Result(ok, message, log) == [ok |-> ok, message |-> message, log |-> log]

NoResult == Result(FALSE, "not called", << >>)

InitGit ==
    /\ repo \in [ kind : {"repo"},        \* "repo", "invalid" (no repository), "broken" (cannot be opened)
                  dirty : {FALSE},        \* staged, unstaged or untracked changes
                  ahead : {0},            \* local commits the remote does not have
                  hasRemote : {TRUE},     \* repo.remotes is not empty
                  diverged : {FALSE} ]    \* the remote has commits the local branch lacks
    /\ res = NoResult
    /\ retry_on_rejected = TRUE

\* --- what the environment does to the repository
EditWorkingTree ==
    /\ repo.kind = "repo"
    /\ ~repo.dirty
    /\ repo.ahead < MaxAhead
    /\ repo' = [repo EXCEPT !.dirty = TRUE]
    /\ UNCHANGED <<res, retry_on_rejected>>

RemoteAdvances ==
    /\ repo.hasRemote
    /\ ~repo.diverged
    /\ repo' = [repo EXCEPT !.diverged = TRUE]
    /\ UNCHANGED <<res, retry_on_rejected>>

Reconfigure(kind, hasRemote) ==
    /\ repo.kind # kind \/ repo.hasRemote # hasRemote
    /\ repo' = [repo EXCEPT !.kind = kind, !.hasRemote = hasRemote,
                            !.diverged = IF hasRemote THEN @ ELSE FALSE]
    /\ UNCHANGED <<res, retry_on_rejected>>

\* --- the remote's answer to a push: "accepted", "rejected" (the remote has
\* commits the local branch lacks) or "failed" (network, authentication)
PushAnswers(diverged) == IF diverged THEN {"rejected", "failed"} ELSE {"accepted", "failed"}

PushLog(answer) ==
    CASE answer = "accepted" -> "push:accepted"
      [] answer = "rejected" -> "push:rejected"
      [] OTHER -> "push:failed"

\* How GitPython reports the answer of origin.push to the caller:
\*   "list_ok"  a list whose first PushInfo has no ERROR flag
\*   "list_err" a list whose first PushInfo has the ERROR flag
\*   "empty"    an empty list
\*   "git_err"  GitCommandError raised
\*   "other"    another exception raised
PushReports(answer) ==
    CASE answer = "accepted" -> {"list_ok"}
      [] answer = "rejected" -> {"list_err", "git_err"}
      [] OTHER -> {"empty", "git_err", "other"}

\* lines 91-98, 118: where the first push leaves the call
\*   "done" (line 97), "retry" (except GitCommandError), "unexpected" (except Exception)
FirstPushExit(report) ==
    CASE report \in {"list_ok", "empty"} -> "done"
      [] report \in {"list_err", "git_err"} -> "retry"
      [] OTHER -> "unexpected"

\* line 112: the second push's result is not inspected; only an exception stops line 113
SecondPushRaises(report) == report \in {"git_err", "other"}

\* lines 100-117 with the retry falling through to line 117
RetryResultFallsThrough(retry, fetchOk, pullOk, push2Raised, log) ==
    IF ~retry THEN Result(FALSE, "Push failed", log)
    ELSE IF ~fetchOk \/ ~pullOk \/ push2Raised THEN Result(FALSE, "Push failed after pull", log)
    ELSE Result(FALSE, "Push failed", log)
\* lines 100-117: the result once the first push has raised GitCommandError
RetryResult(retry, fetchOk, pullOk, push2Raised, log) ==
    IF ~retry THEN Result(FALSE, "Push failed", log)
    ELSE IF ~fetchOk \/ ~pullOk \/ push2Raised THEN Result(FALSE, "Push failed after pull", log)
    ELSE Result(TRUE, "Push complete after pull/rebase", log)

\* lines 87-88: the result when repo.remotes is empty
NoRemoteResultPushed(log) == Result(TRUE, "Push complete.", log)
NoRemoteResult(log) == Result(FALSE, "No remotes configured; cannot push.", log)

\* One call of git_add_commit_push.  retry is retry_on_rejected; the other
\* parameters are what the environment does during the call: detectOk (the
\* status query works), addOk, commitOk, the remote's answers a1, a2 to the two
\* pushes and the forms r1, r2 in which they are reported, fetchOk, rebaseOk and
\* mergeOk, and raced (the remote advances again between the pull and the retry).
GitAddCommitPush(retry, detectOk, addOk, commitOk, a1, r1, fetchOk, rebaseOk, mergeOk, raced, a2, r2) ==
    /\ a1 \in PushAnswers(repo.diverged)
    /\ r1 \in PushReports(a1)
    /\ r2 \in PushReports(a2)
    /\ retry_on_rejected' = retry
    /\ IF repo.kind = "invalid" THEN
            /\ res' = Result(FALSE, "Not a git repository", << >>)
            /\ UNCHANGED repo
       ELSE IF repo.kind = "broken" THEN
            /\ res' = Result(FALSE, "Failed to open repo", << >>)
            /\ UNCHANGED repo
       ELSE IF ~(detectOk /\ repo.dirty) THEN
            /\ res' = Result(FALSE, "No changes to commit (clean working tree).", << >>)
            /\ UNCHANGED repo
       ELSE IF ~addOk THEN
            /\ res' = Result(FALSE, "git add failed", <<"add:failed">>)
            /\ UNCHANGED repo
       ELSE IF ~commitOk THEN
            /\ res' = Result(FALSE, "git commit failed", <<"add", "commit:failed">>)
            /\ UNCHANGED repo
       ELSE IF ~repo.hasRemote THEN
            /\ res' = NoRemoteResult(<<"add", "commit">>)
            /\ repo' = [repo EXCEPT !.dirty = FALSE, !.ahead = @ + 1]
       ELSE LET committed == [repo EXCEPT !.dirty = FALSE, !.ahead = @ + 1]
                log1 == <<"add", "commit", PushLog(a1)>>
                exit1 == FirstPushExit(r1)
            IN  IF exit1 = "done" THEN
                     /\ res' = Result(TRUE, "Push complete.", log1)
                     /\ repo' = IF a1 = "accepted" THEN [committed EXCEPT !.ahead = 0] ELSE committed
                ELSE IF exit1 = "unexpected" THEN
                     /\ res' = Result(FALSE, "Push failed", log1)
                     /\ repo' = committed
                ELSE IF ~retry THEN
                     /\ res' = RetryResult(FALSE, FALSE, FALSE, FALSE, log1)
                     /\ repo' = committed
                ELSE IF ~fetchOk THEN
                     /\ res' = RetryResult(TRUE, FALSE, FALSE, FALSE, log1 \o <<"fetch:failed">>)
                     /\ repo' = committed
                ELSE IF ~rebaseOk /\ ~mergeOk THEN
                     /\ res' = RetryResult(TRUE, TRUE, FALSE, FALSE,
                                           log1 \o <<"fetch", "pull --rebase:failed", "pull:failed">>)
                     /\ repo' = committed
                ELSE LET log2 == log1 \o <<"fetch">>
                                 \o (IF rebaseOk THEN <<"pull --rebase">> ELSE <<"pull --rebase:failed", "pull">>)
                         pulled == [committed EXCEPT !.diverged = raced]
                     IN  /\ a2 \in PushAnswers(pulled.diverged)
                         /\ res' = RetryResult(TRUE, TRUE, TRUE, SecondPushRaises(r2), log2 \o <<PushLog(a2)>>)
                         /\ repo' = IF a2 = "accepted" THEN [pulled EXCEPT !.ahead = 0] ELSE pulled

NextGit ==
    \/ EditWorkingTree
    \/ RemoteAdvances
    \/ \E kind \in {"repo", "invalid", "broken"}, hasRemote \in BOOLEAN : Reconfigure(kind, hasRemote)
    \/ \E retry, detectOk, addOk, commitOk, fetchOk, rebaseOk, mergeOk, raced \in BOOLEAN :
          \E a1 \in PushAnswers(repo.diverged), a2 \in PushAnswers(raced) :
             \E r1 \in PushReports(a1), r2 \in PushReports(a2) :
                GitAddCommitPush(retry, detectOk, addOk, commitOk, a1, r1, fetchOk, rebaseOk, mergeOk, raced, a2, r2)


\* ---------------------------------------------------------------- clipboard_monitor.py
MaxPolls == 3

\* What ImageGrab.grabclipboard() can meet.  kind:
\*   "none"          nothing, or content that is no image (grabclipboard returns None)
\*   "error"         the clipboard API raises
\*   "image"         direct image data; id names the content, good says whether it can be encoded as PNG
\*   "files_image"   a file list whose first file exists and holds the image content id
\*   "files_garbage" a file list whose first file exists and holds no image
\*   "files_missing" a file list whose first file does not exist
\*   "files_empty"   an empty file list
ClipValues ==
    { [kind |-> "none", id |-> 0, good |-> TRUE],
      [kind |-> "error", id |-> 0, good |-> TRUE],
      [kind |-> "image", id |-> 1, good |-> TRUE],
      [kind |-> "image", id |-> 2, good |-> TRUE],
      [kind |-> "image", id |-> 3, good |-> FALSE],
      [kind |-> "files_image", id |-> 1, good |-> TRUE],
      [kind |-> "files_garbage", id |-> 0, good |-> TRUE],
      [kind |-> "files_missing", id |-> 0, good |-> TRUE],
      [kind |-> "files_empty", id |-> 0, good |-> TRUE] }

InitClip ==
    /\ clip = [kind |-> "none", id |-> 0, good |-> TRUE]
    /\ seen_hashes = {}
    /\ captures = << >>
    /\ polls = 0
    /\ looping = TRUE
    /\ polled = << >>

\* The user copies something.
SetClipboard(v) ==
    /\ clip # v
    /\ clip' = v
    /\ UNCHANGED <<seen_hashes, captures, polls, looping, polled>>

\* digest = hash(b.getvalue()): one digest per image content
Digest(v) == v.id

\* lines 77-81: whether the duplicate filter lets the image through
SeenBefore(digest, seen) == digest \in seen

\* What one iteration of the loop does with the clipboard value v; disk1 and
\* disk2 say whether the first and the second write to data/clipboard succeed.
\* saved: the contents saved; seen: seen_hashes afterwards; raised: an exception
\* leaves the loop.
PollEffect(v, seen, disk1, disk2) ==
    CASE v.kind \in {"none", "error", "files_missing", "files_garbage"} ->
            [saved |-> << >>, seen |-> seen, raised |-> FALSE]
      [] v.kind = "files_empty" ->                       \* im[0]: IndexError
            [saved |-> << >>, seen |-> seen, raised |-> TRUE]
      [] v.kind = "files_image" ->                       \* lines 61-68
            [saved |-> IF disk1 THEN <<v.id>> ELSE << >>, seen |-> seen, raised |-> FALSE]
      [] OTHER ->                                        \* lines 70-83
            IF ~v.good THEN [saved |-> << >>, seen |-> seen, raised |-> TRUE]
            ELSE IF SeenBefore(Digest(v), seen) THEN [saved |-> << >>, seen |-> seen, raised |-> FALSE]
            ELSE IF disk1 THEN [saved |-> <<v.id>>, seen |-> seen \cup {Digest(v)}, raised |-> FALSE]
            ELSE IF disk2 THEN [saved |-> <<v.id>>, seen |-> seen, raised |-> FALSE]
            ELSE [saved |-> << >>, seen |-> seen, raised |-> TRUE]

\* One iteration of the while loop of grab_poll_loop (lines 50-86).
Poll(disk1, disk2) ==
    /\ looping
    /\ polls < MaxPolls
    /\ LET e == PollEffect(clip, seen_hashes, disk1, disk2) IN
        /\ captures' = captures \o e.saved
        /\ seen_hashes' = e.seen
        /\ looping' = ~e.raised
        /\ polled' = (IF polled = << >> THEN << >> ELSE <<polled[Len(polled)]>>)
                        \o <<[clip |-> clip, saved |-> Len(e.saved)]>>
    /\ polls' = polls + 1
    /\ UNCHANGED clip

NextClip ==
    \/ \E v \in ClipValues : SetClipboard(v)
    \/ \E disk1, disk2 \in BOOLEAN : Poll(disk1, disk2)

\* ---------------------------------------------------------------- generate_index.py: parse_frontmatter
MaxLen == 3

At(s, i) == IF i >= 1 /\ i <= Len(s) THEN s[i] ELSE "<end>"

\* the literal "---" at position i
DashesAt(s, i) == At(s, i) = "-" /\ At(s, i + 1) = "-" /\ At(s, i + 2) = "-"

RECURSIVE SkipSpace(_, _)
\* the first position from i on that holds no whitespace (\s* taken greedily)
SkipSpace(s, i) == IF i <= Len(s) /\ IsSpace(s[i]) THEN SkipSpace(s, i + 1) ELSE i

RECURSIVE GroupEnd(_, _)
\* the first position e from i on such that \s*--- matches at e, 0 if none:
\* where the lazy group (.*?) stops
GroupEnd(t, i) ==
    IF i > Len(t) + 1 THEN 0
    ELSE IF DashesAt(t, SkipSpace(t, i)) THEN i
    ELSE GroupEnd(t, i + 1)

\* FRONT_RE.match(text) for FRONT_RE = ^---\s*(.*?)\s*---\s* with re.S
FrontMatch(t) ==
    IF ~DashesAt(t, 1) THEN [matched |-> FALSE, group |-> << >>, end |-> 0]
    ELSE LET s0 == SkipSpace(t, 4)
             e == GroupEnd(t, s0)
         IN  IF e = 0 THEN [matched |-> FALSE, group |-> << >>, end |-> 0]
             ELSE [matched |-> TRUE,
                   group |-> SubSeq(t, s0, e - 1),
                   end |-> SkipSpace(t, SkipSpace(t, e) + 3) - 1]

\* k, v = line.split(":", 1)
KeyOf(line) == SubSeq(line, 1, IndexFrom(line, ":", 1) - 1)
ValueOf(line) == Strip(SubSeq(line, Len(KeyOf(line)) + 2, Len(line)))

\* meta[k.strip()] = v.strip()
MetaSet(meta, key, value) == [k \in (DOMAIN meta) \cup {key} |-> IF k = key THEN value ELSE meta[k]]

RECURSIVE MetaOfLines(_, _)
\* the loop over fm.splitlines() (lines 40-43), meta being a dict
MetaOfLines(lines, meta) ==
    IF lines = << >> THEN meta
    ELSE LET line == Head(lines) IN
         IF IndexFrom(line, ":", 1) <= Len(line)
         THEN MetaOfLines(Tail(lines), MetaSet(meta, Strip(KeyOf(line)), ValueOf(line)))
         ELSE MetaOfLines(Tail(lines), meta)

EmptyMeta == [k \in {} |-> << >>]

\* parse_frontmatter(text) -> (meta, rest)
ParseFrontmatter(t) ==
    LET m == FrontMatch(t) IN
    IF m.matched
    THEN [meta |-> MetaOfLines(SplitLines(m.group), EmptyMeta), rest |-> SubSeq(t, m.end + 1, Len(t))]
    ELSE [meta |-> EmptyMeta, rest |-> t]

\* --- the round trip, for every choice of field values
FieldAlphabet == {"x", ":", "-", " "}

\* the texts of at most n tokens
RECURSIVE TextsUpTo(_)
TextsUpTo(n) ==
    IF n = 0 THEN {<< >>}
    ELSE LET shorter == TextsUpTo(n - 1)
         IN  shorter \cup {Append(t, c) : t \in shorter, c \in FieldAlphabet}

FieldValues == TextsUpTo(MaxLen)

NoFields == [source |-> << >>, topics |-> << >>]

InitFrontIdle ==
    /\ fmIn = NoFields
    /\ fmText = << >>
    /\ fmMeta = EmptyMeta
    /\ fmStage = "idle"

InitFront ==
    /\ fmIn \in [source : FieldValues, topics : FieldValues]
    /\ fmText = << >>
    /\ fmMeta = EmptyMeta
    /\ fmStage = "input"

\* create_note_from_image(image, source=fmIn.source, topics=fmIn.topics) writes its note
WriteFront ==
    /\ fmStage = "input"
    /\ fmText' = CreateNoteText(_utc_now_iso(0), fmIn.source, PathName(PngAB), fmIn.topics, <<"1.0">>, <<"Hello">>)
    /\ fmStage' = "written"
    /\ UNCHANGED <<fmIn, fmMeta>>

\* build_note_html reads the note back: meta, body_md = parse_frontmatter(raw)
ParseFront ==
    /\ fmStage = "written"
    /\ fmMeta' = ParseFrontmatter(fmText).meta
    /\ fmStage' = "parsed"
    /\ UNCHANGED <<fmIn, fmText>>

NextFront == WriteFront \/ ParseFront

\* ---------------------------------------------------------------- generate_index.py: generate_site
MaxNotes == 2
MaxRuns == 2
MaxFiles == 3

\* the seconds that occur in the timestamps of the notes
Stamps == {0, 1, 2}

\* the number that the token tok spells
NumOf(tok) == CHOOSE k \in Stamps : ToString(k) = tok

IsNum(tok) == \E k \in Stamps : ToString(k) = tok

NoDate == [valid |-> FALSE, aware |-> FALSE, t |-> 0]

\* datetime.min: naive, before every other datetime
DatetimeMin == [valid |-> TRUE, aware |-> FALSE, t |-> 0]

\* _parse_iso: datetime.fromisoformat, then the same with "Z" read as "+00:00", else None
_parse_iso(d) ==
    LET naive == Len(d) = 7 /\ SubSeq(d, 1, 6) = <<"2024", "-", "01", "T", "00", ":">> /\ IsNum(d[7])
        offset == Len(d) = 11 /\ SubSeq(d, 1, 6) = <<"2024", "-", "01", "T", "00", ":">> /\ IsNum(d[7])
                     /\ SubSeq(d, 8, 11) = <<"+", "00", ":", "00">>
        zulu == Len(d) = 8 /\ SubSeq(d, 1, 6) = <<"2024", "-", "01", "T", "00", ":">> /\ IsNum(d[7])
                     /\ d[8] = "Z"
    IN  IF naive THEN [valid |-> TRUE, aware |-> FALSE, t |-> NumOf(d[7])]
        ELSE IF offset \/ zulu THEN [valid |-> TRUE, aware |-> TRUE, t |-> NumOf(d[7])]
        ELSE NoDate

\* meta.get(key, default)
MetaGet(meta, key, default) == IF key \in DOMAIN meta THEN meta[key] ELSE default

\* f"notes/{out_name}" with out_name = md_path.stem + ".html"
PagePath(md) == <<"notes/", md, ".html">>

\* Path.write_text: the new content of a file that held old
WriteTextAppending(old, new) == old \o new
WriteText(old, new) == new

\* the content of a file that is no UTF-8 text
Undecodable == <<"<not utf-8>">>

\* md_path.read_text(encoding="utf-8") returns (it raises UnicodeDecodeError otherwise)
Reads(raw) == raw # Undecodable

\* build_note_html(md_path): the entry returned; the page is written to
\* entry.path.  (The time of generation goes into the footers only; it is
\* part of neither the rows nor the paths and is left out.)
build_note_html(md, raw) ==
    LET meta == ParseFrontmatter(raw).meta
        created == MetaGet(meta, <<"created_utc">>, << >>)
    IN  [ created_utc |-> created,
          created_dt |-> IF created # << >> THEN _parse_iso(created) ELSE NoDate,
          source |-> MetaGet(meta, <<"source">>, << >>),
          path |-> PagePath(md),
          md_name |-> md ]

\* e["created_dt"] or datetime.min
SortKey(e) == IF e.created_dt.valid THEN e.created_dt ELSE DatetimeMin

\* comparing an offset-aware with an offset-naive datetime raises TypeError; a
\* sort of entries that hold both kinds of key has to compare such a pair
SortRaises(entries) ==
    \E i, j \in 1..Len(entries) : SortKey(entries[i]).aware # SortKey(entries[j]).aware

RECURSIVE InsertDesc(_, _)
\* x put in front of the first element whose key is not greater than x's
InsertDesc(x, sorted) ==
    IF sorted = << >> THEN <<x>>
    ELSE IF SortKey(Head(sorted)).t > SortKey(x).t THEN <<Head(sorted)>> \o InsertDesc(x, Tail(sorted))
    ELSE <<x>> \o sorted

RECURSIVE SortedNewestFirst(_)
\* sorted(entries, key=..., reverse=True): descending, equal keys in their given order
SortedNewestFirst(entries) ==
    IF entries = << >> THEN << >>
    ELSE InsertDesc(Head(entries), SortedNewestFirst(Tail(entries)))

RECURSIVE SortedFiles(_)
\* sorted(NOTES_DIR.glob("*.md")): by file name, which starts with the fixed-width stamp
SortedFiles(fs) ==
    IF fs = {} THEN << >>
    ELSE LET f == CHOOSE x \in fs : \A y \in fs : x.ts <= y.ts
         IN  <<f>> \o SortedFiles(fs \ {f})

NoIndex == [exists |-> FALSE, rows |-> << >>]

NoWrite == [active |-> FALSE, file |-> NoteFileName(0, TxtN), content |-> << >>]

InitSite ==
    /\ pages = << >>
    /\ index = NoIndex
    /\ genStatus = "none"
    /\ genRuns = 0
    /\ writing = NoWrite

\* the notes that the two writers and an editor can leave in data/notes
NoteKinds == {"aware", "naive", "missing", "junk", "binary"}

\* the seconds a note of each kind is stamped with (an earlier and a later one
\* where the index orders by them)
NoteStamps(kind) == IF kind \in {"aware", "naive"} THEN Stamps \ {0} ELSE {1}

NoteTextOf(kind, t) ==
    CASE kind = "aware" ->      \* written by create_note_from_image
            CreateNoteText(_utc_now_iso(t), <<"screenshot">>, PathName(PngAB), None, <<"1.0">>, <<"Hello">>)
      [] kind = "missing" ->    \* written by ocr_image_to_markdown: no created_utc key
            WatcherNoteText(PngAB, t, <<"Hello">>)
      [] kind = "naive" ->      \* edited by hand: a timestamp without offset
            CreateNoteText(<<"2024", "-", "01", "T", "00", ":", ToString(t)>>,
                           <<"screenshot">>, PathName(PngAB), None, <<"1.0">>, <<"Hello">>)
      [] kind = "junk" ->       \* edited by hand: no timestamp at all
            CreateNoteText(<<"yesterday">>, <<"screenshot">>, PathName(PngAB), None, <<"1.0">>, <<"Hello">>)
      [] OTHER ->               \* saved in another encoding
            Undecodable

\* out_path.write_text(content) of a writer, up to open(out_path, "w"): the file
\* exists and is empty.
AddNote(i, kind, t) ==
    /\ ~writing.active
    /\ LET f == NoteFileName(i, PngAB) IN
        /\ f \notin DOMAIN notes
        /\ notes' = [g \in (DOMAIN notes) \cup {f} |-> IF g = f THEN << >> ELSE notes[g]]
        /\ writing' = [active |-> TRUE, file |-> f, content |-> NoteTextOf(kind, t)]
    /\ genRuns' = 0
    /\ UNCHANGED <<files, queue, busy, pc, cur, last_size, complete, start, text, ocrFailed, alive, now, nEvents, faulty>>
    /\ UNCHANGED <<call, gvars, cvars, fvars, pages, index, genStatus>>

\* write_text, a text longer than the file object's buffer: the first buffer-full
\* goes to the file before the rest does (here: the frontmatter's first lines).
WriteChunk ==
    /\ writing.active
    /\ notes[writing.file] = << >>
    /\ notes' = [notes EXCEPT ![writing.file] = SubSeq(writing.content, 1, Len(writing.content) \div 2)]
    /\ genRuns' = 0
    /\ UNCHANGED <<files, queue, busy, pc, cur, last_size, complete, start, text, ocrFailed, alive, now, nEvents, faulty>>
    /\ UNCHANGED <<call, gvars, cvars, fvars, pages, index, genStatus, writing>>

\* write_text: the (rest of the) text is written and the file is closed.
FinishWrite ==
    /\ writing.active
    /\ notes' = [notes EXCEPT ![writing.file] = writing.content]
    /\ writing' = NoWrite
    /\ genRuns' = 0
    /\ UNCHANGED <<files, queue, busy, pc, cur, last_size, complete, start, text, ocrFailed, alive, now, nEvents, faulty>>
    /\ UNCHANGED <<call, gvars, cvars, fvars, pages, index, genStatus>>

RECURSIVE Rendered(_)
\* the loop of lines 170-175 over the sorted note files: the entries collected
Rendered(fs) ==
    IF fs = << >> THEN << >>
    ELSE IF Reads(notes[Head(fs)])
    THEN <<build_note_html(Head(fs), notes[Head(fs)])>> \o Rendered(Tail(fs))
    ELSE Rendered(Tail(fs))      \* except Exception: logged, the note is skipped

\* One call generate_site(notes_dir, site_dir); argsGiven: both arguments are
\* given.  Without them lines 162-163 read the local names NOTES_DIR and
\* SITE_DIR before they are assigned (UnboundLocalError).
GenerateSite(argsGiven) ==
    /\ genRuns < MaxRuns
    /\ IF ~argsGiven
       THEN /\ genStatus' = "unbound_local_error"
            /\ UNCHANGED <<pages, index, genRuns>>
       ELSE LET entries == Rendered(SortedFiles(DOMAIN notes))
                written == {f \in DOMAIN notes : Reads(notes[f])}
            IN  /\ pages' = [f \in (DOMAIN pages) \cup written |->
                                IF f \in written THEN PagePath(f) ELSE pages[f]]
                /\ genRuns' = genRuns + 1
                /\ IF SortRaises(entries)
                   THEN /\ genStatus' = "type_error"
                        /\ UNCHANGED index
                   ELSE /\ genStatus' = "ok"
                        /\ index' = [exists |-> TRUE, rows |-> WriteText(index.rows, SortedNewestFirst(entries))]
    /\ UNCHANGED <<wvars, call, gvars, cvars, fvars, writing>>

\* the notes a checkout can bring: for each file name, no file or a note of some kind
NoteChoices == {<<"none", 0>>} \cup {<<kind, t>> : kind \in NoteKinds, t \in Stamps \ {0}}

\* The notes directory is filled in one step with complete files (a checkout or
\* a pull of the notes repository into an empty directory).
CheckoutNotes(choice) ==
    /\ notes = << >>
    /\ ~writing.active
    /\ \A i \in DOMAIN choice : choice[i][1] = "none" \/ choice[i][2] \in NoteStamps(choice[i][1])
    /\ notes' = [f \in {NoteFileName(i, PngAB) : i \in {j \in DOMAIN choice : choice[j][1] # "none"}} |->
                    NoteTextOf(choice[f.ts][1], choice[f.ts][2])]
    /\ notes' # << >>
    /\ genRuns' = 0
    /\ UNCHANGED <<files, queue, busy, pc, cur, last_size, complete, start, text, ocrFailed, alive, now, nEvents, faulty>>
    /\ UNCHANGED <<call, gvars, cvars, fvars, pages, index, genStatus, writing>>

NextRender ==
    \/ \E choice \in [1..MaxFiles -> NoteChoices] : CheckoutNotes(choice)
    \/ \E argsGiven \in BOOLEAN : GenerateSite(argsGiven)

NextSite ==
    \/ \E i \in 1..MaxNotes, kind \in NoteKinds : \E t \in NoteStamps(kind) : AddNote(i, kind, t)
    \/ WriteChunk
    \/ FinishWrite
    \/ \E argsGiven \in BOOLEAN : GenerateSite(argsGiven)

\* ---------------------------------------------------------------- specifications
\* The ingestion side: the filesystem feed of watcher.py and direct calls of
\* create_note_from_image, both writing into data/notes.
Next ==
    \/ NextWatcher /\ UNCHANGED <<call, gvars, cvars, fvars, svars>>
    \/ \E p \in Paths, r \in OcrOutcomes, diskOk \in BOOLEAN : CreateNoteFromImage(p, r, diskOk)

Init == InitWatcher /\ InitOcrUtils /\ InitGit /\ InitClip /\ InitFrontIdle /\ InitSite

Spec == Init /\ [][Next]_vars

SpecGit == Init /\ [][NextGit /\ UNCHANGED <<wvars, call, cvars, fvars, svars>>]_vars

SpecClip == Init /\ [][NextClip /\ UNCHANGED <<wvars, call, gvars, fvars, svars>>]_vars

\* parse_frontmatter applied to what create_note_from_image writes, for every choice of field values
InitRoundTrip == InitWatcher /\ InitOcrUtils /\ InitGit /\ InitClip /\ InitFront /\ InitSite

SpecFront == InitRoundTrip /\ [][NextFront /\ UNCHANGED <<wvars, call, gvars, cvars, svars>>]_vars

\* generate_site run again and again over a notes directory that gains notes
SpecSite == Init /\ [][NextSite]_vars

\* generate_site run over a notes directory as a checkout left it
SpecRender == Init /\ [][NextRender]_vars

\* ---------------------------------------------------------------- claims: ingestion
\* the lines of a note after the blank line that ends its frontmatter
NoteBodyLines(t) ==
    LET ls == SplitOn(t, NL)
        k == CHOOSE i \in 1..Len(ls) : ls[i] = << >> /\ \A j \in 1..(i-1) : ls[j] # << >>
    IN  SubSeq(ls, k + 1, Len(ls))

BeginsWithOcrError(t) ==
    LET b == NoteBodyLines(t)
    IN  b # << >> /\ Len(b[1]) >= 2 /\ b[1][1] = "[OCR ERROR]" /\ b[1][2] = " "

ImagePathsPresent == {p \in Paths : MatchesPatterns(p) /\ files[p].exists}

\* C1: an exception raised while one event is handled is caught inside the
\* coordinator, so the observer's processing loop keeps running after a failed
\* handling and later creation events are still processed.
C1_FailureDoesNotStopLoop == alive /\ pc # "dead"

\* C2: when N distinct, complete, valid images were each announced by one
\* creation event on the filesystem feed (and nothing else happened: no file
\* deleted, no duplicate notification, no write error, no other writer), then
\* once all events are handled exactly N note files exist, all under different
\* names.  The clock only moves forwards.
C2_OneNotePerValidImage ==
    (~faulty /\ pc = "idle" /\ queue = << >>) =>
        Cardinality(DOMAIN notes) = Cardinality(ImagePathsPresent)

\* two images whose stems sanitize to the same name were ingested, both notes exist
C2_Witness ==
    /\ ~faulty /\ pc = "idle" /\ queue = << >>
    /\ ImagePathsPresent = {PngAB, PngA_B}
    /\ Cardinality(DOMAIN notes) = 2
    /\ \A f \in DOMAIN notes : f.name = <<"a", "_", "b">>

\* C9: a failing OCR call does not abort note creation, in either note-writing
\* path: the handling goes on to the write, and the note that is written has a
\* body that begins with "[OCR ERROR] " followed by the failure detail.
C9_OcrFailureStillWritesNote ==
    [][ /\ (pc = "ocr" /\ pc' # pc) => pc' = "write"
        /\ (pc = "write" /\ ocrFailed /\ pc' = "returned_note") =>
              (OutPath \in DOMAIN notes' /\ BeginsWithOcrError(notes'[OutPath]))
        /\ (call' # call /\ call'.ocrFailed /\ ~call'.diskFailed) =>
              (/\ call'.status = "written"
               /\ call'.out \in DOMAIN notes'
               /\ BeginsWithOcrError(notes'[call'.out])) ]_vars

\* both paths have written a note after a failing OCR call
C9_Witness ==
    /\ pc = "returned_note" /\ ocrFailed /\ BeginsWithOcrError(notes[OutPath])
    /\ call.status = "written" /\ call.ocrFailed /\ BeginsWithOcrError(notes[call.out])

\* C10: a creation event that arrives while its path is in the in-flight set is
\* dropped without producing a note, and no two handlings of one path are
\* active together.
C10_InFlightEventDropped ==
    /\ ~(pc = "returned_note" /\ cur.inflight)
    /\ Cardinality(busy) <= 1

\* C12: after a note has been written for an event, the coordinator runs site
\* regeneration and then the sync step before it clears the path from the
\* in-flight set: the step that clears it starts with the note listed in the
\* index and with git_add_commit_push called.
C12_PublishBeforeClear ==
    [][ (pc = "returned_note" /\ busy' # busy) =>
            (/\ index.exists
             /\ \E i \in 1..Len(index.rows) : index.rows[i].md_name = OutPath
             /\ res # NoResult) ]_vars

RequiredKeys == <<"created_utc", "source", "orig_filename", "topics", "version", "ocr_engine">>

\* the text t is "---", the six required keys in their order, "---", a blank line and a body
WellFormedNote(t) ==
    LET ls == SplitOn(t, NL)
    IN  /\ Len(ls) >= Len(RequiredKeys) + 4
        /\ ls[1] = <<"-", "-", "-">>
        /\ \A i \in 1..Len(RequiredKeys) : KeyOf(ls[i + 1]) = <<RequiredKeys[i]>>
        /\ ls[Len(RequiredKeys) + 2] = <<"-", "-", "-">>
        /\ ls[Len(RequiredKeys) + 3] = << >>
        /\ ls[Len(RequiredKeys) + 4] # << >>

\* C13: every note file written, by the watcher's ocr_image_to_markdown or by
\* create_note_from_image, carries the six required frontmatter keys in the
\* order created_utc, source, orig_filename, topics, version, ocr_engine,
\* followed by a blank line and the body.
C13_NotesCarryRequiredKeys == \A f \in DOMAIN notes : WellFormedNote(notes[f])

\* the file at p is missing, or holds nothing that can be identified as an image
Unreadable(p) == ~files[p].exists \/ files[p].kind # "image" \/ files[p].size = 0

NotesFor(p) ==
    {f \in DOMAIN notes :
        MetaGet(ParseFrontmatter(notes[f]).meta, <<"orig_filename">>, << >>) = PathName(p)}

\* C17: two creation notifications for one path, the second arriving while the
\* first is being handled or during the guard delay after it, are absorbed into
\* one handling: when the second has been dealt with, one note at most exists
\* for the path (no other writer being at work).
C17_DuplicateNotificationAbsorbed ==
    (pc \in {"returned_note", "returned_none"} /\ cur.inflight /\ call = NoCall) =>
        Cardinality(NotesFor(cur.path)) <= 1

C22_InFlightSetDoesNotLeak ==
    pc \in {"idle", "dead"} =>
        /\ busy = {}
        /\ cur # NoEvent => cur.path \notin busy
        /\ queue # << >> => Head(queue).path \notin busy

\* on_created has returned normally for one event, leaving its note, and has
\* been left by an exception for the next, and the set is empty
C22_Witness ==
    /\ pc = "dead" /\ cur # NoEvent /\ busy = {}
    /\ call = NoCall /\ DOMAIN notes # {}

\* ---------------------------------------------------------------- claims: sync step
\* C4: on a repository whose working tree is clean, git_add_commit_push runs no
\* add, commit or push and reports a successful no-op (ok is true).
C4_CleanTreeIsSuccessfulNoOp ==
    res.message = "No changes to commit (clean working tree)." => (res.ok /\ res.log = << >>)

\* C5: when the first push is rejected and the fetch, the pull (rebase, or the
\* plain pull after a failed rebase) and the second push all succeed, the call
\* returns ok = true.
C5_RejectedThenRetrySucceeds ==
    \A pull \in {<<"pull --rebase">>, <<"pull --rebase:failed", "pull">>} :
        res.log = <<"add", "commit", "push:rejected", "fetch">> \o pull \o <<"push:accepted">> => res.ok

\* the retry succeeded through the merge fallback and published every commit
C5_Witness ==
    /\ res.log = <<"add", "commit", "push:rejected", "fetch", "pull --rebase:failed", "pull", "push:accepted">>
    /\ res.ok
    /\ repo.ahead = 0

\* C15: a call of git_add_commit_push on a directory that is no repository, or
\* on a repository without a configured remote, returns a failure result
\* (ok is false) that carries its reason; no exception leaves the call.
C15_NoRemoteIsReportedFailure ==
    [][ (res' # res /\ (repo.kind = "invalid" \/ ~repo.hasRemote)) =>
            (/\ ~res'.ok
             /\ repo.kind = "invalid" => res'.message = "Not a git repository"
             /\ (repo.kind = "repo" /\ res'.log = <<"add", "commit">>) =>
                    res'.message = "No remotes configured; cannot push.") ]_vars

\* a change was committed in a repository without a remote and the call reported the failure
C15_Witness ==
    /\ ~repo.hasRemote /\ repo.kind = "repo" /\ repo.ahead = 1
    /\ ~res.ok /\ res.message = "No remotes configured; cannot push."

\* C18: when a call of git_add_commit_push has failed after it committed (the
\* push failed, or no remote is configured), the next call, made with no new
\* file changes, still finds the unpublished changes and tries to publish them:
\* it does not return the clean-working-tree outcome.
C18_FailedSyncLeavesChangesPending ==
    [][ (/\ res' # res
         /\ ~res.ok /\ Len(res.log) >= 2 /\ res.log[2] = "commit"
         /\ repo.kind = "repo" /\ ~repo.dirty /\ repo.ahead > 0) =>
            res'.message # "No changes to commit (clean working tree)." ]_vars

\* the pushes among the commands a call ran
PushesOf(log) == {i \in DOMAIN log : log[i] \in {"push:accepted", "push:rejected", "push:failed"}}

\* C20: one call of git_add_commit_push pushes at most twice; a second push
\* follows only a first push that did not go through, with a fetch and a pull
\* in between; when the second push is not accepted either, the call reports
\* failure; and with retry_on_rejected false there is one push at most.
C20_AtMostOneRetry ==
    LET pushes == PushesOf(res.log)
        last == res.log[Len(res.log)]
    IN  /\ Cardinality(pushes) <= 2
        /\ Cardinality(pushes) = 2 =>
              (/\ res.log[3] \in {"push:rejected", "push:failed"}
               /\ res.log[4] = "fetch"
               /\ res.log[Len(res.log) - 1] \in {"pull --rebase", "pull"}
               /\ pushes = {3, Len(res.log)}
               /\ last # "push:accepted" => ~res.ok)
        /\ ~retry_on_rejected => Cardinality(pushes) <= 1

\* C23: a result with ok true means the commit reached the remote: the last
\* push the call made, the second one on the retry path included, was accepted.
C23_SuccessMeansRemoteHasCommit ==
    (res # NoResult /\ res.ok) =>
        /\ PushesOf(res.log) # {}
        /\ res.log[Len(res.log)] = "push:accepted"

\* ---------------------------------------------------------------- claims: polling feed
\* C3: when the clipboard presents the same image content on two successive
\* polls, in either form (direct image data or a file-reference list), exactly
\* one capture is saved: the second occurrence is dropped.
C3_SameContentSavedOnce ==
    (/\ Len(polled) = 2
     /\ polled[1].clip = polled[2].clip
     /\ polled[1].clip.kind \in {"image", "files_image"}) =>
        (polled[2].saved = 0 /\ polled[1].saved <= 1)

\* C21: nothing the clipboard holds ends the poll loop: after an API error, an
\* empty clipboard, content that is no image, a file list that is empty or
\* whose first file is missing or unreadable, or a capture that cannot be
\* saved, the loop is still running and the next poll takes place.
C21_PollLoopSurvivesContent == looping

\* ---------------------------------------------------------------- claims: frontmatter
\* the fields create_note_from_image serialized for the input in hand
SerializedFields ==
    [k \in {<<"created_utc">>, <<"source">>, <<"orig_filename">>, <<"topics">>, <<"version">>, <<"ocr_engine">>} |->
        CASE k = <<"created_utc">> -> _utc_now_iso(0)
          [] k = <<"source">> -> fmIn.source
          [] k = <<"orig_filename">> -> PathName(PngAB)
          [] k = <<"topics">> -> TopicsField(fmIn.topics)
          [] k = <<"version">> -> <<"1.0">>
          [] OTHER -> <<"tesseract">>]

\* C7: parse_frontmatter applied to the note text that create_note_from_image
\* wrote returns exactly the serialized keys with exactly their values, also for
\* values that contain ":" or "---" or leading or trailing spaces.
C7_FrontmatterRoundTrips == fmStage = "parsed" => fmMeta = SerializedFields

\* ---------------------------------------------------------------- claims: site
\* the note with row i of the index has a valid timestamp
ValidRow(i) == index.rows[i].created_dt.valid

IndexRowKeys == [i \in 1..Len(index.rows) |-> <<index.rows[i].md_name, index.rows[i].path>>]

\* C6: regeneration completes without raising for any mix of notes with valid
\* (timezone-aware or naive) timestamps and notes without a parseable one, and
\* in the index every note without a valid timestamp comes after every note
\* with one.
C6_UndatedNotesSortLast ==
    genStatus \in {"ok", "type_error"} =>
        /\ genStatus = "ok"
        /\ \A i, j \in 1..Len(index.rows) : (ValidRow(i) /\ ~ValidRow(j)) => i < j

\* C8: with the note files unchanged, a further run of generate_site leaves the
\* index rows in the same order and every note mapped to the same page path.
C8_RegenerationIdempotent ==
    [][ (genRuns >= 1 /\ genRuns' = genRuns + 1) =>
            (/\ IndexRowKeys' = IndexRowKeys
             /\ index'.exists = index.exists
             /\ pages' = pages) ]_vars

\* a second run over the same notes, the index holding a row for each of them
C8_Witness ==
    /\ genRuns >= 2
    /\ genStatus = "ok"
    /\ Len(index.rows) = MaxNotes
    /\ DOMAIN pages = DOMAIN notes

\* C11: a note is written as one atomic file creation: at no moment, hence at
\* none at which a concurrent reader such as generate_site can run, does the
\* notes directory hold a note file that is empty or holds only part of its text.
C11_NoPartialNoteObservable ==
    \A f \in DOMAIN notes : ~(writing.active /\ writing.file = f /\ notes[f] # writing.content)

\* the notes that build_note_html can render
Renderable == {f \in DOMAIN notes : notes[f] # Undecodable}

\* C16: a failure while rendering one note skips only that note: when the last
\* call of generate_site ran over the notes as they are, every other note has
\* its page and the index was rebuilt with exactly the notes that rendered.
C16_RenderFailureSkipsOneNote ==
    (genRuns >= 1 /\ genStatus \in {"ok", "type_error"} /\ Renderable # DOMAIN notes) =>
        (/\ genStatus = "ok"
         /\ Renderable \subseteq DOMAIN pages
         /\ {index.rows[i].md_name : i \in 1..Len(index.rows)} = Renderable
         /\ Len(index.rows) = Cardinality(Renderable))

====
